---- MODULE Spec2Model ----
(***************************************************************************)
(* Model of src/op_mode/show_dhcp.py: the DHCP lease query (get_leases),   *)
(* the pool size calculation (get_pool_size) and the command's main        *)
(* script (argument validation, lease listing, pool statistics).           *)
(*                                                                         *)
(* Python strings are tuples of one-character strings, so that string      *)
(* comparison, substring tests and address parsing are computed and not    *)
(* assumed.  Python's None is the tuple None below.                        *)
(***************************************************************************)
EXTENDS Integers, Sequences, FiniteSets, TLC

\* ------------------------------------------------------------------ bounds

\* longest journal (number of lease entries in the lease file)
MaxLeases == 2
\* longest journal of the display-sort scenarios
MaxSortLeases == 3
\* lease times are seconds 0..MaxTime after the epoch
MaxTime == 1
\* most tokens of a --state argument (besides the complete list)
MaxStateTokens == 1
\* most subnets of the pool whose configuration varies
MaxSubnets == 2
\* offset of local time from UTC, in seconds
UtcOffset == 1

\* ------------------------------------------------------------------ strings

\* the characters used, in code point order
Alphabet ==
    << " ", ",", ".", "/", "0", "1", "2", "3", "4", "5", "6", "7", "8", "9", ":",
       "a", "b", "c", "d", "e", "f", "g", "h", "i", "j", "k", "l", "m",
       "n", "o", "p", "q", "r", "s", "t", "u", "v", "w", "x", "y", "z" >>

Ord(c) == CHOOSE i \in 1..Len(Alphabet) : Alphabet[i] = c

Digits == << "0", "1", "2", "3", "4", "5", "6", "7", "8", "9" >>

DigitVal(c) == (CHOOSE i \in 1..10 : Digits[i] = c) - 1

SetMin(S) == CHOOSE x \in S : \A y \in S : x <= y

SetMax(S) == CHOOSE x \in S : \A y \in S : x >= y

\* Python's None: no string, since every character of a string is one character
None == << "<None>" >>

\* str < str: lexicographic by code point, a proper prefix first
StrLess(a, b) ==
    LET n == IF Len(a) < Len(b) THEN Len(a) ELSE Len(b)
        diff == {i \in 1..n : a[i] # b[i]}
    IN  IF diff = {} THEN Len(a) < Len(b)
        ELSE Ord(a[SetMin(diff)]) < Ord(b[SetMin(diff)])

\* x in s, for strings x and s: x occurs in s as a substring
IsSubstring(x, s) ==
    \E i \in 0..Len(s) :
        /\ i + Len(x) <= Len(s)
        /\ \A k \in 1..Len(x) : s[i + k] = x[k]

\* x in c, where c is a list of strings or one string
PyIn(x, c) == IF c.kind = "str" THEN IsSubstring(x, c.val) ELSE x \in c.val

\* two decimal digits
TwoDigits(n) == << Digits[(n \div 10) + 1], Digits[(n % 10) + 1] >>

\* ------------------------------------------------------------------ addresses

RECURSIVE OctetsAcc(_, _, _)
OctetsAcc(s, done, cur) ==
    IF s = << >> THEN Append(done, cur)
    ELSE IF Head(s) = "." THEN OctetsAcc(Tail(s), Append(done, cur), 0)
    ELSE OctetsAcc(Tail(s), done, cur * 10 + DigitVal(Head(s)))

\* the four octets of a dotted-quad address
Octets(s) == OctetsAcc(s, << >>, 0)

RECURSIVE HornerDiff(_, _, _)
HornerDiff(a, b, acc) ==
    IF a = << >> THEN acc
    ELSE HornerDiff(Tail(a), Tail(b), acc * 256 + (Head(a) - Head(b)))

\* int(ip_address(a)) - int(ip_address(b)).  The two integers exceed the
\* model checker's 32-bit integers for addresses above 127.255.255.255, their
\* difference does not: it is computed octet by octet (Horner, base 256).
IpDiff(a, b) == HornerDiff(Octets(a), Octets(b), 0)

\* int(ip_address(a)) < int(ip_address(b))
IpIntLess(a, b) == IpDiff(b, a) > 0

\* ------------------------------------------------------------------ sorting

\* sorted(s, key=...): the stable ascending sort, where less[<<i, j>>] says
\* that the key of s[i] is smaller than the key of s[j].  Before(i, j) says
\* that element i of s comes before element j: its key is smaller, or the
\* keys do not differ and i is the earlier position.
sorted(s, less) ==
    LET Before(i, j) == less[<< i, j >>] \/ (~less[<< j, i >>] /\ i < j)
        Rank(i) == Cardinality({j \in 1..Len(s) : Before(j, i)})
    IN  [k \in 1..Len(s) |-> s[CHOOSE i \in 1..Len(s) : Rank(i) = k - 1]]

\* the positions of s, in pairs
Pairs(s) == (1..Len(s)) \X (1..Len(s))

\* ------------------------------------------------------------------ constants

pool_key == "shared-networkname"

\* the keys of lease_display_fields, in insertion order
lease_display_fields ==
    << "ip", "hardware_address", "state", "start", "end", "remaining", "pool",
       "hostname" >>

s_all == << "a", "l", "l" >>
s_active == << "a", "c", "t", "i", "v", "e" >>
s_free == << "f", "r", "e", "e" >>
s_expired == << "e", "x", "p", "i", "r", "e", "d" >>
s_released == << "r", "e", "l", "e", "a", "s", "e", "d" >>
s_abandoned == << "a", "b", "a", "n", "d", "o", "n", "e", "d" >>
s_reset == << "r", "e", "s", "e", "t" >>
s_backup == << "b", "a", "c", "k", "u", "p" >>

lease_valid_states ==
    << s_all, s_active, s_free, s_expired, s_released, s_abandoned, s_reset,
       s_backup >>

\* set(l) of a list l
ToSet(l) == {l[i] : i \in 1..Len(l)}

\* ------------------------------------------------------------------ leases

\* "%Y/%m/%d %H:%M:%S" of a time within the first minute of the epoch
strftime(t) ==
    << "1", "9", "7", "0", "/", "0", "1", "/", "0", "1", " ", "0", "0", ":",
       "0", "0", ":" >> \o TwoDigits(t)

\* str(timedelta).split('.')[0] of a duration of less than a minute
timedelta_str(d) == << "0", ":", "0", "0", ":" >> \o TwoDigits(d)

\* a lease time that is None (no "ends" line, or "ends never")
NoTime == 0 - 1

utc_to_local(utc_dt) == utc_dt + UtcOffset

in_pool(lease, pool) ==
    IF pool_key \in DOMAIN lease.sets
    THEN lease.sets[pool_key] = pool
    ELSE FALSE

\* get_lease_data, with the value utcnow() returns in it
get_lease_data(lease, now) ==
    [ start |-> IF lease.start = NoTime THEN << >>
                ELSE strftime(utc_to_local(lease.start)),
      end   |-> IF lease.end = NoTime THEN << >>
                ELSE strftime(utc_to_local(lease.end)),
      remaining |-> IF lease.end = NoTime THEN << >>
                    ELSE IF lease.end - now >= 0
                         THEN timedelta_str(lease.end - now)
                         ELSE << >>,
      tstp  |-> IF "tstp" \in DOMAIN lease.data THEN lease.data["tstp"] ELSE << >>,
      tsfp  |-> IF "tsfp" \in DOMAIN lease.data THEN lease.data["tsfp"] ELSE << >>,
      atsfp |-> IF "atsfp" \in DOMAIN lease.data THEN lease.data["atsfp"] ELSE << >>,
      cltt  |-> IF "cltt" \in DOMAIN lease.data THEN lease.data["cltt"] ELSE << >>,
      hardware_address |-> lease.ethernet,
      hostname |-> lease.hostname,
      state |-> lease.binding_state,
      ip    |-> lease.ip,
      pool  |-> IF pool_key \in DOMAIN lease.sets THEN lease.sets[pool_key]
                ELSE << >> ]

\* filter leases by state
FilterState(ls, state) ==
    IF ~PyIn(s_all, state)
    THEN SelectSeq(ls, LAMBDA x : PyIn(x.binding_state, state))
    ELSE ls

\* filter leases by pool name
FilterPool(ls, pool) ==
    IF pool # None THEN SelectSeq(ls, LAMBDA x : in_pool(x, pool)) ELSE ls

StartLess(a, b) == a.start < b.start

\* a sort by start time that is not stable: equal starts come out reversed
SortByStartUnstable(ls) ==
    LET Before(i, j) ==
            \/ ls[i].start < ls[j].start
            \/ (ls[i].start = ls[j].start /\ i > j)
        Rank(i) == Cardinality({j \in 1..Len(ls) : Before(j, i)})
    IN  [k \in 1..Len(ls) |-> ls[CHOOSE i \in 1..Len(ls) : Rank(i) = k - 1]]

\* sort by start time to dedupe (newest lease overrides older)
SortByStart(ls) ==
    sorted(ls, [p \in Pairs(ls) |-> StartLess(ls[p[1]], ls[p[2]])])

\* a dict update that keeps the entry a key already has
DictSetKeepFirst(d, k, v) ==
    IF \E i \in 1..Len(d) : d[i][1] = k THEN d ELSE Append(d, << k, v >>)

\* leases_dict[ip] = lease, on a dict that keeps its keys in insertion order:
\* a list of <<key, value>> pairs
DictSet(d, k, v) ==
    IF \E i \in 1..Len(d) : d[i][1] = k
    THEN [i \in 1..Len(d) |-> IF d[i][1] = k THEN << k, v >> ELSE d[i]]
    ELSE Append(d, << k, v >>)

DictKeys(d) == {d[i][1] : i \in 1..Len(d)}

DictGet(d, k) == d[CHOOSE i \in 1..Len(d) : d[i][1] = k][2]

DictValues(d) == [i \in 1..Len(d) |-> d[i][2]]

RECURSIVE DedupeFold(_, _)
\* dedupe by converting to dict
DedupeFold(ls, d) ==
    IF ls = << >> THEN d
    ELSE DedupeFold(Tail(ls), DictSet(d, Head(ls).ip, Head(ls)))

Dedupe(ls) == DedupeFold(ls, << >>)

\* the < of two sort keys raises TypeError: None is not ordered
Unorderable(ls, sort) ==
    /\ sort # "ip"
    /\ Len(ls) >= 2
    /\ \E i \in 1..Len(ls) : ls[i][sort] = None

\* the addresses compared as text
IpKeyLessText(a, b) == StrLess(a.ip, b.ip)

IpKeyLess(a, b) == IpIntLess(a.ip, b.ip)

\* apply output/display sort
DisplaySort(ls, sort) ==
    IF sort = "ip"
    THEN sorted(ls, [p \in Pairs(ls) |-> IpKeyLess(ls[p[1]], ls[p[2]])])
    ELSE sorted(ls, [p \in Pairs(ls) |->
                        StrLess(ls[p[1]][sort], ls[p[2]][sort])])

\* ------------------------------------------------------------------ pools

\* config.exists_effective("service dhcp-server shared-network-name <pool>")
exists_effective(config, pool) ==
    config.configured /\ pool \in ToSet(config.pools)

\* config.list_effective_nodes("... shared-network-name <pool> subnet"): the
\* subnets of the pool, each with its ranges; none for a pool that is not there
list_effective_nodes(config, pool) ==
    IF exists_effective(config, pool) THEN config.subnets[pool] ELSE << >>

\* a range size that leaves out one boundary
RangeSizeExclusive(r) == IpDiff(r.stop, r.start)

\* Add +1 because both range boundaries are inclusive
RangeSize(r) == IpDiff(r.stop, r.start) + 1

RECURSIVE SumRanges(_, _)
SumRanges(ranges, size) ==
    IF ranges = << >> THEN size
    ELSE SumRanges(Tail(ranges), size + RangeSize(Head(ranges)))

RECURSIVE SumSubnets(_, _)
SumSubnets(subnets, size) ==
    IF subnets = << >> THEN size
    ELSE SumSubnets(Tail(subnets), SumRanges(Head(subnets), size))

get_pool_size(config, pool) == SumSubnets(list_effective_nodes(config, pool), 0)

\* round(leases / size * 100): Python rounds a half to the even neighbour
use_percentage(leases, size) ==
    IF size # 0
    THEN LET q == (leases * 100) \div size
             r == (leases * 100) % size
         IN  IF 2 * r < size THEN q
             ELSE IF 2 * r > size THEN q + 1
             ELSE IF q % 2 = 0 THEN q ELSE q + 1
    ELSE 0

\* a row with the subtraction of available the wrong way round
pool_stats_swapped(p, size, leases) ==
    [ pool |-> p, size |-> size, leases |-> leases, available |-> leases - size,
      percentage |-> use_percentage(leases, size) ]

pool_stats(p, size, leases) ==
    [ pool |-> p, size |-> size, leases |-> leases, available |-> size - leases,
      percentage |-> use_percentage(leases, size) ]

\* ------------------------------------------------------------------ inputs

ip_10_0_0_1 == << "1", "0", ".", "0", ".", "0", ".", "1" >>
ip_10_0_0_2 == << "1", "0", ".", "0", ".", "0", ".", "2" >>
ip_10_0_0_10 == << "1", "0", ".", "0", ".", "0", ".", "1", "0" >>
ip_192_0_2_30 == << "1", "9", "2", ".", "0", ".", "2", ".", "3", "0" >>
ip_192_0_2_31 == << "1", "9", "2", ".", "0", ".", "2", ".", "3", "1" >>
ip_192_0_2_32 == << "1", "9", "2", ".", "0", ".", "2", ".", "3", "2" >>

mac_a == << "0", "0", ":", "0", "a" >>
mac_b == << "0", "0", ":", "0", "b" >>
host_nas == << "n", "a", "s" >>
host_pc == << "p", "c" >>
p_lan == << "l", "a", "n" >>
p_dmz == << "d", "m", "z" >>
p_guest == << "g", "u", "e", "s", "t" >>
s_bogus == << "b", "o", "g", "u", "s" >>

Times == 0..MaxTime

NoData == [k \in {} |-> << >>]

\* lease.sets of a lease with no "set" line, and of one tagged with a pool
NoSets == [k \in {} |-> << >>]

PoolTag(p) == [k \in {pool_key} |-> p]

Lease(ip, start, end, state, ethernet, hostname, sets) ==
    [ ip |-> ip, start |-> start, end |-> end, binding_state |-> state,
      ethernet |-> ethernet, hostname |-> hostname, sets |-> sets,
      data |-> NoData ]

\* the sequences over S of length at most n
SeqsUpTo(S, n) == UNION {[1..k -> S] : k \in 0..n}

\* address ranges of the configuration, each inclusive
range_a == [start |-> << "1", "9", "2", ".", "0", ".", "2", ".", "1", "0" >>, stop |-> << "1", "9", "2", ".", "0", ".", "2", ".", "2", "0" >>]
range_b == [start |-> << "1", "9", "2", ".", "0", ".", "2", ".", "3", "0" >>, stop |-> << "1", "9", "2", ".", "0", ".", "2", ".", "3", "0" >>]
range_c == [start |-> << "1", "9", "2", ".", "0", ".", "2", ".", "4", "0" >>, stop |-> << "1", "9", "2", ".", "0", ".", "2", ".", "4", "7" >>]
range_d == [start |-> << "1", "9", "2", ".", "0", ".", "2", ".", "5", "0" >>, stop |-> << "1", "9", "2", ".", "0", ".", "2", ".", "5", "1" >>]

\* no "service dhcp-server" in the effective configuration
Unconfigured ==
    [ configured |-> FALSE, pools |-> << >>, subnets |-> [p \in {} |-> << >>] ]

\* the pools lan and dmz, lan with the given subnets (each a list of ranges)
Configured(lan_subnets) ==
    [ configured |-> TRUE, pools |-> << p_lan, p_dmz >>,
      subnets |-> [p \in {p_lan, p_dmz} |->
                      IF p = p_lan THEN lan_subnets ELSE << << range_d >> >>] ]

SimpleConf == Configured(<< << range_a, range_b >> >>)

SubnetChoices == { << range_b >>, << range_a, range_b >>, << range_c >> }

\* ranges never overlap by external contract: no range is configured twice
LanConfigs ==
    { c \in SeqsUpTo(SubnetChoices, MaxSubnets) :
        \A i, j \in 1..Len(c) : i # j => ToSet(c[i]) \cap ToSet(c[j]) = {} }

Unreadable == [readable |-> FALSE, records |-> << >>]

File(records) == [readable |-> TRUE, records |-> records]

Args(mode, state, pool, sort) ==
    [mode |-> mode, state |-> state, pool |-> pool, sort |-> sort]

Modes == {"leases", "statistics", "allowed_sort", "allowed_state", "none"}

ValidStates == ToSet(lease_valid_states)

\* the --state arguments tried, as sets of tokens
StateArgs ==
    { t \in SUBSET (ValidStates \cup {s_bogus}) :
        Cardinality(t) >= 1 /\ Cardinality(t) <= MaxStateTokens }
    \cup { ValidStates, ValidStates \cup {s_bogus}, {s_active, s_bogus},
           ValidStates \ {s_all} }

\* leases that differ in address, start, state and pool tag
DedupLeases ==
    { Lease(ip, start, NoTime, state, mac_a, << >>, sets) :
        ip \in {ip_10_0_0_1, ip_10_0_0_2}, start \in {0, MaxTime},
        state \in {s_active, s_free}, sets \in {NoSets, PoolTag(p_lan)} }

\* leases that differ in every displayed field
SampleLeases ==
    { Lease(ip_10_0_0_10, 0, 1, s_active, mac_b, host_pc, PoolTag(p_lan)),
      Lease(ip_10_0_0_2, 1, NoTime, s_free, None, << >>, NoSets),
      Lease(ip_10_0_0_1, 0, 0, s_active, mac_a, host_nas, PoolTag(p_lan)),
      Lease(ip_10_0_0_1, 1, MaxTime, s_expired, None, host_nas, NoSets),
      Lease(ip_10_0_0_2, 0, 1, s_active, mac_a, << >>, PoolTag(p_dmz)) }

\* leases of the pools lan and dmz
PoolLeases ==
    { Lease(ip_192_0_2_30, 0, NoTime, s_active, mac_a, << >>, PoolTag(p_lan)),
      Lease(ip_192_0_2_30, MaxTime, NoTime, s_free, mac_a, << >>, PoolTag(p_lan)),
      Lease(ip_192_0_2_31, 0, NoTime, s_active, mac_b, << >>, PoolTag(p_lan)),
      Lease(ip_192_0_2_32, 0, NoTime, s_active, mac_b, << >>, PoolTag(p_dmz)) }

\* ------------------------------------------------------------------ state

VARIABLES
    args,         \* the parsed command line: mode, state, pool, sort
    conf,         \* the effective configuration
    running,      \* is_systemd_service_running('isc-dhcp-server.service')
    journal,      \* the lease file
    pc,           \* the statement of the script that runs next
    call,         \* the arguments of the running get_leases call
    leases,       \* the variable leases of get_leases
    leases_dict,  \* the variable leases_dict of get_leases
    pools,        \* statistics: the pools still to do, the current one first
    size,         \* statistics: the size of the current pool
    stats,        \* statistics: the rows so far
    warned,       \* the stale data warning was printed
    effects,      \* what the run has touched so far
    outcome       \* how the run ended

vars ==
    << args, conf, running, journal, pc, call, leases, leases_dict, pools, size,
       stats, warned, effects, outcome >>

NoCall == [state |-> [kind |-> "list", val |-> {}], pool |-> None, sort |-> "ip"]

Start ==
    /\ pc = "allowed"
    /\ call = NoCall
    /\ leases = << >>
    /\ leases_dict = << >>
    /\ pools = << >>
    /\ size = 0
    /\ stats = << >>
    /\ warned = FALSE
    /\ effects = {}
    /\ outcome = "running"

\* any command line, on a small lease file
InitArgs ==
    /\ args \in { Args(m, st, p, so) :
                    m \in Modes, st \in StateArgs, p \in {None, p_lan, p_guest},
                    so \in {"ip", "hostname", "bogus"} }
    /\ conf \in {Unconfigured, SimpleConf}
    /\ running \in BOOLEAN
    /\ journal \in { Unreadable, File(<< >>),
                     File(<< Lease(ip_10_0_0_1, 0, 1, s_active, mac_a, host_pc,
                                   PoolTag(p_lan)) >>) }

\* lease listings of files with several entries per address
InitDedup ==
    /\ args \in { Args("leases", st, p, "ip") :
                    st \in {{s_active}, {s_all}}, p \in {None, p_lan} }
    /\ conf = SimpleConf
    /\ running = TRUE
    /\ journal \in { File(r) : r \in SeqsUpTo(DedupLeases, MaxLeases) }

\* lease listings in every display order
InitSort ==
    /\ args \in { Args("leases", {s_all}, None, so) :
                    so \in ToSet(lease_display_fields) }
    /\ conf = SimpleConf
    /\ running = TRUE
    /\ journal \in { File(r) : r \in SeqsUpTo(SampleLeases, MaxSortLeases) }

\* pool statistics over several configurations
InitStats ==
    /\ args \in { Args("statistics", {s_active}, p, "ip") :
                    p \in {None, p_lan, p_guest} }
    /\ conf \in { Configured(c) : c \in LanConfigs }
    /\ running = TRUE
    /\ journal \in { File(r) : r \in SeqsUpTo(PoolLeases, MaxLeases) }

Init == Start /\ (InitArgs \/ InitDedup \/ InitSort \/ InitStats)

\* ------------------------------------------------------------------ script

\* a state check that accepts every set
ProperSubsetAny(a, b) == TRUE

\* a < b for sets: a proper subset
ProperSubset(a, b) == a \subseteq b /\ a # b

\* exit(...), or the traceback of an exception nobody catches
Exit(o) == pc' = "done" /\ outcome' = o

\* lines 191-199: --allowed prints the allowed values and exits
Allowed ==
    /\ pc = "allowed"
    /\ IF args.mode = "allowed_sort" THEN Exit("allowed_sort")
       ELSE IF args.mode = "allowed_state" THEN Exit("allowed_state")
       ELSE pc' = "validate_sort" /\ outcome' = outcome
    /\ UNCHANGED << args, conf, running, journal, call, leases, leases_dict,
                    pools, size, stats, warned, effects >>

\* lines 201-203
ValidateSort ==
    /\ pc = "validate_sort"
    /\ IF args.sort \notin ToSet(lease_display_fields)
       THEN Exit("invalid_sort")
       ELSE pc' = "validate_state" /\ outcome' = outcome
    /\ UNCHANGED << args, conf, running, journal, call, leases, leases_dict,
                    pools, size, stats, warned, effects >>

\* lines 205-207
ValidateState ==
    /\ pc = "validate_state"
    /\ IF ~ProperSubset(args.state, ToSet(lease_valid_states))
       THEN Exit("invalid_state")
       ELSE pc' = "service" /\ outcome' = outcome
    /\ UNCHANGED << args, conf, running, journal, call, leases, leases_dict,
                    pools, size, stats, warned, effects >>

\* lines 209-226: nothing to do without the service; a warning when the
\* server is down; then the branch of the mode
CheckService ==
    /\ pc = "service"
    /\ effects' = effects \cup {"service_lookup"}
    /\ IF ~conf.configured
       THEN /\ Exit("not_configured")
            /\ UNCHANGED << call, warned >>
       ELSE /\ warned' = ~running
            /\ outcome' = outcome
            /\ IF args.mode = "leases"
               THEN /\ pc' = "read"
                    /\ call' = [ state |-> [kind |-> "list", val |-> args.state],
                                 pool |-> args.pool, sort |-> args.sort ]
               ELSE /\ pc' = IF args.mode = "statistics" THEN "select_pools"
                             ELSE "help"
                    /\ call' = call
    /\ UNCHANGED << args, conf, running, journal, leases, leases_dict, pools,
                    size, stats >>

\* lines 257-259
Help ==
    /\ pc = "help"
    /\ Exit("help")
    /\ UNCHANGED << args, conf, running, journal, call, leases, leases_dict,
                    pools, size, stats, warned, effects >>

\* line 106: get leases from file
ReadJournal ==
    /\ pc = "read"
    /\ effects' = effects \cup {"journal"}
    /\ IF ~journal.readable
       THEN Exit("io_error") /\ leases' = leases
       ELSE pc' = "filter" /\ outcome' = outcome /\ leases' = journal.records
    /\ UNCHANGED << args, conf, running, journal, call, leases_dict, pools,
                    size, stats, warned >>

\* lines 108-118: filter by state, then by pool name
FilterLeases ==
    /\ pc = "filter"
    /\ effects' = effects \cup {"filter"}
                    \cup (IF call.pool # None THEN {"pool_lookup"} ELSE {})
    /\ IF call.pool # None /\ ~exists_effective(conf, call.pool)
       THEN /\ Exit("no_pool")
            /\ leases' = FilterState(leases, call.state)
       ELSE /\ pc' = "dedupe"
            /\ outcome' = outcome
            /\ leases' = FilterPool(FilterState(leases, call.state), call.pool)
    /\ UNCHANGED << args, conf, running, journal, call, leases_dict, pools,
                    size, stats, warned >>

\* lines 122-129: sort by start time, dedupe by IP
DedupeLeases ==
    /\ pc = "dedupe"
    /\ effects' = effects \cup {"sort"}
    /\ leases' = SortByStart(leases)
    /\ leases_dict' = Dedupe(SortByStart(leases))
    /\ pc' = "convert"
    /\ UNCHANGED << args, conf, running, journal, call, pools, size, stats,
                    warned, outcome >>

\* the values utcnow() returns in n calls in a row
Clocks(n) ==
    { c \in [1..n -> Times] : \A i, j \in 1..n : i < j => c[i] <= c[j] }

\* line 132: convert the lease data
ConvertLeases ==
    /\ pc = "convert"
    /\ \E now \in Clocks(Len(leases_dict)) :
         leases' = [i \in 1..Len(leases_dict) |->
                       get_lease_data(DictValues(leases_dict)[i], now[i])]
    /\ pc' = "sort"
    /\ UNCHANGED << args, conf, running, journal, call, leases_dict, pools,
                    size, stats, warned, effects, outcome >>

\* lines 134-140: apply output/display sort, return
SortLeases ==
    /\ pc = "sort"
    /\ effects' = effects \cup {"sort"}
    /\ IF Unorderable(leases, call.sort)
       THEN Exit("type_error") /\ leases' = leases
       ELSE /\ leases' = DisplaySort(leases, call.sort)
            /\ pc' = IF args.mode = "leases" THEN "show_leases" ELSE "pool_stat"
            /\ outcome' = outcome
    /\ UNCHANGED << args, conf, running, journal, call, leases_dict, pools,
                    size, stats, warned >>

\* lines 221-224
ShowLeases ==
    /\ pc = "show_leases"
    /\ Exit("leases")
    /\ UNCHANGED << args, conf, running, journal, call, leases, leases_dict,
                    pools, size, stats, warned, effects >>

\* lines 227-236: get relevant pools
SelectPools ==
    /\ pc = "select_pools"
    /\ pools' = IF args.pool # None THEN << args.pool >> ELSE conf.pools
    /\ effects' = effects \cup (IF args.pool # None THEN {} ELSE {"pool_lookup"})
    /\ stats' = << >>
    /\ pc' = IF pools' = << >> THEN "show_stats" ELSE "pool_size"
    /\ UNCHANGED << args, conf, running, journal, call, leases, leases_dict,
                    size, warned, outcome >>

\* lines 237-239: the size of the pool, then the call of get_leases
PoolSize ==
    /\ pc = "pool_size"
    /\ effects' = effects \cup {"pool_lookup"}
    /\ size' = get_pool_size(conf, Head(pools))
    /\ call' = [ state |-> [kind |-> "str", val |-> s_active],
                 pool |-> Head(pools), sort |-> "ip" ]
    /\ pc' = "read"
    /\ UNCHANGED << args, conf, running, journal, leases, leases_dict, pools,
                    stats, warned, outcome >>

\* lines 239-249: the row of the pool
PoolStat ==
    /\ pc = "pool_stat"
    /\ stats' = Append(stats, pool_stats(Head(pools), size, Len(leases)))
    /\ pools' = Tail(pools)
    /\ pc' = IF Tail(pools) = << >> THEN "show_stats" ELSE "pool_size"
    /\ UNCHANGED << args, conf, running, journal, call, leases, leases_dict,
                    size, warned, effects, outcome >>

\* lines 251-255: print stats
ShowStats ==
    /\ pc = "show_stats"
    /\ Exit("stats")
    /\ UNCHANGED << args, conf, running, journal, call, leases, leases_dict,
                    pools, size, stats, warned, effects >>

Next ==
    \/ Allowed
    \/ ValidateSort
    \/ ValidateState
    \/ CheckService
    \/ Help
    \/ ReadJournal
    \/ FilterLeases
    \/ DedupeLeases
    \/ ConvertLeases
    \/ SortLeases
    \/ ShowLeases
    \/ SelectPools
    \/ PoolSize
    \/ PoolStat
    \/ ShowStats

Spec == Init /\ [][Next]_vars

\* ------------------------------------------------------------------ types

TypeOK ==
    /\ pc \in { "allowed", "validate_sort", "validate_state", "service", "help",
                "read", "filter", "dedupe", "convert", "sort", "show_leases",
                "select_pools", "pool_size", "pool_stat", "show_stats", "done" }
    /\ outcome \in { "running", "allowed_sort", "allowed_state", "invalid_sort",
                     "invalid_state", "not_configured", "help", "io_error",
                     "no_pool", "type_error", "leases", "stats" }
    /\ (pc = "done") = (outcome # "running")

\* ------------------------------------------------------------------ claims

Records == journal.records

JournalIps == {Records[i].ip : i \in 1..Len(Records)}

\* the authoritative records of an address: those of the journal with the
\* greatest start of the address (one record, unless starts are equal)
Authoritative(ip) ==
    LET idx == {i \in 1..Len(Records) : Records[i].ip = ip}
        latest == SetMax({Records[i].start : i \in idx})
    IN  {Records[i] : i \in {n \in idx : Records[n].start = latest}}

ResultIps == {leases[i].ip : i \in 1..Len(leases)}

\* the addresses whose authoritative record has a state of the set and the
\* pool tag; Sure: every record with the greatest start has, Maybe: one has
SureIps(states, pool) ==
    { ip \in JournalIps :
        \A r \in Authoritative(ip) :
            r.binding_state \in states /\ (pool # None => in_pool(r, pool)) }

MaybeIps(states, pool) ==
    { ip \in JournalIps :
        \E r \in Authoritative(ip) :
            r.binding_state \in states /\ (pool # None => in_pool(r, pool)) }

\* C1: the state and pool filters apply to the authoritative record of each
\* address: with a state set without 'all', the listing holds an address
\* exactly when the record with the greatest start among all journal records
\* of the address has a requested state (and the requested pool tag), and the
\* lease count of a statistics row counts only such addresses.  (Records of
\* one address with equal greatest starts are left open here.)
C1_FilterOnResolved ==
    /\ (outcome = "leases" /\ s_all \notin args.state) =>
          /\ SureIps(args.state, args.pool) \subseteq ResultIps
          /\ ResultIps \subseteq MaybeIps(args.state, args.pool)
    /\ \A k \in 1..Len(stats) :
          /\ stats[k].leases >= Cardinality(SureIps({s_active}, stats[k].pool))
          /\ stats[k].leases <= Cardinality(MaybeIps({s_active}, stats[k].pool))

\* C2: the resolver step (sort by start, fold into a mapping keyed by ip)
\* yields exactly one record per distinct address of the sequence handed to
\* it, and the start of that record is the greatest start among the records
\* of the address.
C2_DedupCorrect ==
    [][ pc = "dedupe" =>
          /\ DictKeys(leases_dict') = {leases[i].ip : i \in 1..Len(leases)}
          /\ \A i, j \in 1..Len(leases_dict') :
                leases_dict'[i][1] = leases_dict'[j][1] => i = j
          /\ \A i \in 1..Len(leases_dict') :
                /\ leases_dict'[i][2] \in ToSet(leases)
                /\ leases_dict'[i][2].ip = leases_dict'[i][1]
                /\ leases_dict'[i][2].start =
                     SetMax({ leases[j].start :
                                j \in {n \in 1..Len(leases) :
                                         leases[n].ip = leases_dict'[i][1]} })
      ]_vars

\* a listing resolved two records of one address with different starts into
\* the later one
C2_Witness ==
    /\ pc = "convert"
    /\ \E i, j \in 1..Len(leases) :
          /\ leases[i].ip = leases[j].ip
          /\ leases[i].start < leases[j].start
          /\ DictGet(leases_dict, leases[i].ip) = leases[j]
    /\ Len(leases_dict) = 2

\* C3: state validation rejects a query exactly when the requested state set
\* has a token outside the enumeration; every non-empty set of valid tokens,
\* the set of all eight included, is accepted.
C3_StateValidation ==
    (/\ pc = "done"
     /\ args.mode \in {"leases", "statistics", "none"}
     /\ args.sort \in ToSet(lease_display_fields))
    => (outcome = "invalid_state" <=> ~(args.state \subseteq ValidStates))

PoolMissing ==
    /\ args.mode \in {"leases", "statistics"}
    /\ args.sort \in ToSet(lease_display_fields)
    /\ ProperSubset(args.state, ValidStates)
    /\ conf.configured
    /\ args.pool # None
    /\ ~exists_effective(conf, args.pool)

\* C4: a query for a pool that is not in the effective configuration always
\* ends with the 'pool does not exist' message and no row, never in a fatal
\* error, whatever the state of the journal.
C4_MissingPoolRecoverable ==
    (pc = "done" /\ PoolMissing) => (outcome = "no_pool" /\ stats = << >>)

\* C5: with a readable journal and validated parameters the lease query never
\* aborts: whatever optional fields the records lack and whatever the sort
\* key, get_leases returns every record that passed resolution and filtering.
C5_NeverAborts ==
    (/\ pc = "done"
     /\ args.mode = "leases"
     /\ "journal" \in effects
     /\ journal.readable
     /\ (args.pool # None => exists_effective(conf, args.pool)))
    => (outcome = "leases" /\ Len(leases) = Len(leases_dict))

\* the sum of f over a finite set
RECURSIVE SumOver(_, _)
SumOver(S, f) ==
    IF S = {} THEN 0
    ELSE LET x == CHOOSE y \in S : TRUE IN f[x] + SumOver(S \ {x}, f)

\* the ranges of all subnets of a pool (no range is configured twice)
PoolRanges(pool) ==
    LET sn == conf.subnets[pool]
    IN  UNION {ToSet(sn[i]) : i \in 1..Len(sn)}

\* the number of addresses from start to stop: 192.0.2.x, so the last octets
LastOctet(ip) == Octets(ip)[4]

Addresses(r) == LastOctet(r.start)..LastOctet(r.stop)

\* C6: every statistics row has as size the sum over all ranges of all
\* subnets of the pool of (stop - start + 1), as available size minus leases,
\* and as percentage round(leases / size * 100), the nearest integer (the
\* even one of two), for a size other than 0 and 0 for the size 0; the ranges
\* [192.0.2.10, 192.0.2.20] and [192.0.2.30, 192.0.2.30] give the size 12.
C6_PoolStat ==
    \A k \in 1..Len(stats) :
        LET row == stats[k]
            ranges == PoolRanges(row.pool)
        IN  /\ row.size =
                 SumOver(ranges, [r \in ranges |-> Cardinality(Addresses(r))])
            /\ ranges = {range_a, range_b} => row.size = 12
            /\ row.available = row.size - row.leases
            /\ row.size = 0 => row.percentage = 0
            /\ row.size # 0 =>
                 LET d == 2 * (100 * row.leases - row.percentage * row.size)
                 IN  /\ d <= row.size
                     /\ 0 - d <= row.size
                     /\ (d = row.size \/ 0 - d = row.size)
                          => row.percentage % 2 = 0

\* the statistics of the pool of the two ranges, with one active lease: 8%
C6_Witness ==
    /\ outcome = "stats"
    /\ \E k \in 1..Len(stats) :
          /\ PoolRanges(stats[k].pool) = {range_a, range_b}
          /\ stats[k].leases = 1
          /\ stats[k].percentage = 8

Invalid ==
    /\ args.mode \in {"leases", "statistics"}
    /\ \/ args.sort \notin ToSet(lease_display_fields)
       \/ ~(args.state \subseteq ValidStates)

\* C7: validation comes before all other work: a lease or statistics query
\* with a sort key that is no display field, or with an unknown state token,
\* stops with the caller error, and in that run the journal is never read and
\* no configuration lookup, filtering or sorting happens.
C7_ValidationFirst ==
    Invalid =>
        /\ effects = {}
        /\ leases = << >> /\ leases_dict = << >> /\ stats = << >>
        /\ pc \in {"allowed", "validate_sort", "validate_state", "done"}
        /\ pc = "done" =>
             outcome = IF args.sort \notin ToSet(lease_display_fields)
                       THEN "invalid_sort" ELSE "invalid_state"

\* a lease query with a valid sort key and an unknown state token was rejected
C7_Witness ==
    /\ pc = "done"
    /\ outcome = "invalid_state"
    /\ args.mode = "leases"
    /\ s_bogus \in args.state
    /\ journal.readable

\* a <= b for lists of numbers of one length, lexicographic
OctetsLeq(a, b) ==
    \/ a = b
    \/ \E i \in 1..Len(a) : a[i] < b[i] /\ \A j \in 1..(i - 1) : a[j] = b[j]

\* get_leases has returned
Returned == pc \in {"show_leases", "pool_stat"} \/ outcome = "leases"

\* C8: the sequence get_leases returns is in the order of the requested key:
\* by the integer value of the address for the key ip (10.0.0.2 before
\* 10.0.0.10), in the natural order of the field's value for any other key;
\* and it holds exactly the filtered, deduplicated records.
C8_Sorted ==
    Returned =>
        /\ \A i \in 1..(Len(leases) - 1) :
              IF call.sort = "ip"
              THEN OctetsLeq(Octets(leases[i].ip), Octets(leases[i + 1].ip))
              ELSE ~StrLess(leases[i + 1][call.sort], leases[i][call.sort])
        /\ Len(leases) = Len(leases_dict)
        /\ ResultIps = DictKeys(leases_dict)
        /\ \A i \in 1..Len(leases) :
              LET raw == DictGet(leases_dict, leases[i].ip)
              IN  /\ leases[i].state = raw.binding_state
                  /\ leases[i].hardware_address = raw.ethernet
                  /\ leases[i].hostname = raw.hostname

\* the journal [10.0.0.10, 10.0.0.2, 10.0.0.1] listed by address
C8_Witness ==
    /\ outcome = "leases"
    /\ call.sort = "ip"
    /\ [i \in 1..Len(Records) |-> Records[i].ip]
         = << ip_10_0_0_10, ip_10_0_0_2, ip_10_0_0_1 >>
    /\ [i \in 1..Len(leases) |-> leases[i].ip]
         = << ip_10_0_0_1, ip_10_0_0_2, ip_10_0_0_10 >>

\* C9: of several records handed to the resolver with the same address and
\* the same greatest start, the one that is last in journal order survives.
C9_TieBreak ==
    [][ pc = "dedupe" =>
          \A ip \in DictKeys(leases_dict') :
              LET idx == {i \in 1..Len(leases) : leases[i].ip = ip}
                  latest == SetMax({leases[i].start : i \in idx})
                  last == SetMax({i \in idx : leases[i].start = latest})
              IN  DictGet(leases_dict', ip) = leases[last]
      ]_vars

\* two records of one address with one start and different states were
\* resolved into the second
C9_Witness ==
    /\ pc = "convert"
    /\ Len(Records) = 2
    /\ Len(leases) = 2
    /\ Records[1].ip = Records[2].ip
    /\ Records[1].start = Records[2].start
    /\ Records[1].binding_state # Records[2].binding_state
    /\ DictValues(leases_dict) = << Records[2] >>

\* C10: every statistics row is within bounds: 0 <= leases <= size, hence
\* available >= 0 and 0 <= percentage <= 100.
C10_StatWithinBounds ==
    \A k \in 1..Len(stats) :
        /\ 0 <= stats[k].leases /\ stats[k].leases <= stats[k].size
        /\ stats[k].available >= 0
        /\ 0 <= stats[k].percentage /\ stats[k].percentage <= 100

\* C10, amended: leases and percentage are never negative, and a row whose
\* leases do not exceed its size has available >= 0 and percentage <= 100.
C10_StatBoundsWhenFits ==
    \A k \in 1..Len(stats) :
        /\ 0 <= stats[k].leases
        /\ 0 <= stats[k].percentage
        /\ stats[k].leases <= stats[k].size =>
              /\ stats[k].available >= 0
              /\ stats[k].percentage <= 100

\* a pool with leases, fewer than addresses
C10_Witness ==
    /\ outcome = "stats"
    /\ \E k \in 1..Len(stats) :
          /\ stats[k].leases = 2
          /\ stats[k].size = 8
          /\ stats[k].available = 6
          /\ stats[k].percentage = 25

====
